---- MODULE Spec2Model ----
(***************************************************************************)
(* hottbox/core/structures.py: the dense Tensor container, the CP, Tucker  *)
(* and Tensor-Train containers, super_diag_tensor and residual_tensor.     *)
(*                                                                         *)
(* Python objects live on a heap: numpy arrays in `ndarrays`, Python lists *)
(* of mode names in `lists`, Python lists of arrays in `arrlists`, Tensor  *)
(* objects in `tensors`, decomposition containers in `containers`.  An     *)
(* object is named by its position in its sequence, so two fields holding  *)
(* the same position are aliases of one object.  `owned` holds the arrays  *)
(* the caller made itself and handed to a constructor.                     *)
(***************************************************************************)
EXTENDS Integers, Sequences, FiniteSets, TLC

VARIABLES ndarrays, lists, arrlists, tensors, containers, owned, origin, calls, steps

vars == <<ndarrays, lists, arrlists, tensors, containers, owned, origin, calls, steps>>

(***************************************************************************)
(* Bounds of the model.                                                    *)
(***************************************************************************)
\* the number of calls a behaviour makes
MaxSteps == 3

\* the number of calls a behaviour of SpecRename makes
MaxRenameSteps == 2

\* the shapes of the arrays a Tensor is first constructed from
InitShapes == {<<2>>, <<2, 2>>, <<2, 3>>, <<2, 3, 2>>}

\* decomposition containers: the number of modes, the ranks, and the arrays
\* they are built from (one family of arrays per seed)
MaxOrder == 3

MaxRank == 2

MaxSeed == 1

\* the full shape of a decomposed tensor is the head of one of these
ShapePatterns == {<<2, 3, 2, 2>>, <<3, 2, 2, 3>>}

(***************************************************************************)
(* Sequences and index tuples.  Indices are 0-based as in the source; the  *)
(* k-th index of a tuple sits at position k+1 of the TLA+ sequence.        *)
(***************************************************************************)
RECURSIVE Prod(_)
Prod(s) == IF s = <<>> THEN 1 ELSE Head(s) * Prod(Tail(s))

RemoveAt(s, k) == [i \in 1..(Len(s) - 1) |-> IF i < k THEN s[i] ELSE s[i + 1]]

InsertAt(s, k, x) ==
    [i \in 1..(Len(s) + 1) |-> IF i < k THEN s[i] ELSE IF i = k THEN x ELSE s[i - 1]]

Reverse(s) == [i \in 1..Len(s) |-> s[Len(s) + 1 - i]]

Last(s) == s[Len(s)]

RECURSIVE Idx(_)
Idx(shape) ==
    IF shape = <<>> THEN {<<>>}
    ELSE {<<i>> \o r : i \in 0..(Head(shape) - 1), r \in Idx(Tail(shape))}

\* column-major (order='F') offset of an index tuple: the first index runs fastest
RECURSIVE LinF(_, _)
LinF(shape, idx) ==
    IF shape = <<>> THEN 0
    ELSE Head(idx) + Head(shape) * LinF(Tail(shape), Tail(idx))

RECURSIVE UnlinF(_, _)
UnlinF(shape, n) ==
    IF shape = <<>> THEN <<>>
    ELSE <<n % Head(shape)>> \o UnlinF(Tail(shape), n \div Head(shape))

\* row-major (numpy's default order='C') offset: the last index runs fastest
LinC(shape, idx) == LinF(Reverse(shape), Reverse(idx))

(***************************************************************************)
(* numpy arrays as values: a shape and the element at every index tuple.   *)
(***************************************************************************)
NdArray(shape, f(_)) == [shape |-> shape, at |-> [i \in Idx(shape) |-> f(i)]]

\* np.arange(1, size+1).reshape(shape)
Arange(shape) == [shape |-> shape, at |-> [i \in Idx(shape) |-> 1 + LinC(shape, i)]]

\* np.reshape(a, shape, order='F')
reshapeF(a, shape) ==
    [shape |-> shape, at |-> [i \in Idx(shape) |-> a.at[UnlinF(a.shape, LinF(shape, i))]]]

RECURSIVE SumTo(_, _)
SumTo(n, f) == IF n = 0 THEN 0 ELSE f[n - 1] + SumTo(n - 1, f)

\* np.dot of two 2-D arrays
dot(a, b) ==
    [shape |-> <<a.shape[1], b.shape[2]>>,
     at |-> [i \in Idx(<<a.shape[1], b.shape[2]>>) |->
               SumTo(a.shape[2], [k \in 0..(a.shape[2] - 1) |->
                                    a.at[<<i[1], k>>] * b.at[<<k, i[2]>>]])]]

\* a - b of two arrays of one shape
subtract(a, b) == [shape |-> a.shape, at |-> [i \in Idx(a.shape) |-> a.at[i] - b.at[i]]]

(***************************************************************************)
(* hottbox.core.operations: unfold, fold, mode_n_product.                  *)
(***************************************************************************)
unfold_ok(tensor, mode) == mode \in 0..(Len(tensor.shape) - 1)

\* rows: the index of `mode`; columns: the remaining indices, in increasing
\* mode order, flattened
unfold(tensor, mode) ==
    LET rest == RemoveAt(tensor.shape, mode + 1)
        shape == <<tensor.shape[mode + 1], Prod(rest)>>
    IN [shape |-> shape,
        at |-> [i \in Idx(shape) |->
                  tensor.at[InsertAt(UnlinF(rest, i[2]), mode + 1, i[1])]]]

fold_ok(matrix, mode, full_shape) ==
    /\ mode \in 0..(Len(full_shape) - 1)
    /\ matrix.shape = <<full_shape[mode + 1], Prod(RemoveAt(full_shape, mode + 1))>>

fold(matrix, mode, full_shape) ==
    LET rest == RemoveAt(full_shape, mode + 1)
    IN [shape |-> full_shape,
        at |-> [i \in Idx(full_shape) |->
                  matrix.at[<<i[mode + 1], LinF(rest, RemoveAt(i, mode + 1))>>]]]

mode_n_product_ok(tensor, matrix, mode) ==
    /\ mode \in 0..(Len(tensor.shape) - 1)
    /\ Len(matrix.shape) = 2
    /\ matrix.shape[2] = tensor.shape[mode + 1]

mode_n_product(tensor, matrix, mode) ==
    LET new_shape == [tensor.shape EXCEPT ![mode + 1] = matrix.shape[1]]
    IN fold(dot(matrix, unfold(tensor, mode)), mode, new_shape)

(***************************************************************************)
(* The heap.                                                               *)
(***************************************************************************)
H == [ndarrays |-> ndarrays, lists |-> lists, arrlists |-> arrlists,
      tensors |-> tensors, containers |-> containers]

EmptyHeap == [ndarrays |-> <<>>, lists |-> <<>>, arrlists |-> <<>>,
              tensors |-> <<>>, containers |-> <<>>]

Install(h) ==
    /\ ndarrays' = h.ndarrays
    /\ lists' = h.lists
    /\ arrlists' = h.arrlists
    /\ tensors' = h.tensors
    /\ containers' = h.containers

\* a new numpy array holding `value`
NewArray(h, value) ==
    [h |-> [h EXCEPT !.ndarrays = Append(@, value)], addr |-> Len(h.ndarrays) + 1]

\* a new Python list of mode names holding `value`
NewList(h, value) ==
    [h |-> [h EXCEPT !.lists = Append(@, value)], addr |-> Len(h.lists) + 1]

\* a new Python list of arrays holding the references `value`
NewArrList(h, value) ==
    [h |-> [h EXCEPT !.arrlists = Append(@, value)], addr |-> Len(h.arrlists) + 1]

\* an entry of a list of mode names: a string, or (after unfold) a nested list
Str(s) == [isStr |-> TRUE, str |-> s, list |-> <<>>]

Lst(l) == [isStr |-> FALSE, str |-> "", list |-> l]

Result(h, ret, status) == [h |-> h, ret |-> ret, status |-> status]

(***************************************************************************)
(* class Tensor                                                            *)
(***************************************************************************)
\* Tensor._assign_names with mode_names=None
Tensor_assign_names(ndim) == [mode \in 1..ndim |-> Str("mode-" \o ToString(mode - 1))]

\* Tensor.__init__(array) for the numpy array at address `array`
Tensor_init(h, array) ==
    LET a == NewArray(h, h.ndarrays[array])
        l == NewList(a.h, Tensor_assign_names(Len(h.ndarrays[array].shape)))
        self == [_data |-> a.addr,
                 _orig_shape |-> h.ndarrays[array].shape,
                 _mode_names |-> l.addr]
    IN Result([l.h EXCEPT !.tensors = Append(@, self)], Len(h.tensors) + 1, "ok")

\* Tensor.data, Tensor.shape, Tensor.order, Tensor.mode_names
Tensor_data(h, self) == h.ndarrays[h.tensors[self]._data]

Tensor_shape(h, self) == Tensor_data(h, self).shape

Tensor_order(h, self) == Len(Tensor_data(h, self).shape)

Tensor_mode_names(h, self) == h.lists[h.tensors[self]._mode_names]

\* Tensor.copy: a new object whose __dict__ holds the same references
Tensor_copy(h, self) ==
    Result([h EXCEPT !.tensors = Append(@, h.tensors[self])], Len(h.tensors) + 1, "ok")

\* `if inplace: tensor = self / else: tensor = self.copy()`
Receiver_ignoring_flag(h, self, inplace) == Result(h, self, "ok")

Receiver(h, self, inplace) ==
    IF inplace THEN Result(h, self, "ok") ELSE Tensor_copy(h, self)

\* An exception leaves the caller with the heap as the call left it; a copy
\* made by the call is then unreachable and is dropped.
Raise(h, hpartial, inplace, status) ==
    Result(IF inplace THEN hpartial ELSE h, 0, status)

\* Tensor.unfold
Tensor_unfold(h, self, mode, inplace) ==
    IF ~unfold_ok(Tensor_data(h, self), mode) THEN Result(h, 0, "IndexError")
    ELSE
    LET r == Receiver(h, self, inplace)
        tensor == r.ret
        a == NewArray(r.h, unfold(Tensor_data(r.h, self), mode))
        h1 == [a.h EXCEPT !.tensors[tensor]._data = a.addr]
        old_mode_names == Tensor_mode_names(h1, tensor)
    IN IF mode >= Len(old_mode_names) THEN Raise(h, h1, inplace, "IndexError")
       ELSE
       LET new_mode_names == <<old_mode_names[mode + 1],
                               Lst(RemoveAt(old_mode_names, mode + 1))>>
           l == NewList(h1, new_mode_names)
       IN Result([l.h EXCEPT !.tensors[tensor]._mode_names = l.addr], tensor, "ok")

\* tuple.index: the first position holding x, -1 when there is none
TupleIndex(t, x) ==
    IF \E k \in 1..Len(t) : t[k] = x
    THEN (CHOOSE k \in 1..Len(t) : t[k] = x /\ \A j \in 1..(k - 1) : t[j] # x) - 1
    ELSE -1

\* list.insert(mode, x): past the end it appends
ListInsert(l, mode, x) == InsertAt(l, (IF mode > Len(l) THEN Len(l) ELSE mode) + 1, x)

\* Tensor.fold
Tensor_fold(h, self, inplace) ==
    LET r == Receiver(h, self, inplace)
        tensor == r.ret
        orig_shape == r.h.tensors[tensor]._orig_shape
        mode == TupleIndex(orig_shape, Tensor_shape(r.h, tensor)[1])
    IN IF mode = -1 THEN Result(h, 0, "ValueError")
       ELSE IF ~fold_ok(Tensor_data(r.h, self), mode, h.tensors[self]._orig_shape)
       THEN Result(h, 0, "ValueError")
       ELSE
       LET a == NewArray(r.h, fold(Tensor_data(r.h, self), mode, h.tensors[self]._orig_shape))
           h1 == [a.h EXCEPT !.tensors[tensor]._data = a.addr]
           names == Tensor_mode_names(h1, tensor)
       IN IF Last(names).isStr THEN Raise(h, h1, inplace, "AttributeError")
          ELSE
          LET new_mode_names == ListInsert(Last(names).list, mode, names[1])
              l == NewList(h1, new_mode_names)
          IN Result([l.h EXCEPT !.tensors[tensor]._mode_names = l.addr], tensor, "ok")

\* Tensor.mode_n_product with the 2-D array `matrix` (Tensor(matrix) is a
\* temporary holding a copy of it, read once)
Tensor_mode_n_product(h, self, matrix, mode, inplace) ==
    LET r == Receiver(h, self, inplace)
        tensor == r.ret
    IN IF ~mode_n_product_ok(Tensor_data(r.h, tensor), matrix, mode)
       THEN Result(h, 0, "ValueError")
       ELSE
       LET a == NewArray(r.h, mode_n_product(Tensor_data(r.h, tensor), matrix, mode))
           h1 == [a.h EXCEPT !.tensors[tensor]._data = a.addr]
       IN Result([h1 EXCEPT !.tensors[tensor]._orig_shape = Tensor_shape(h1, tensor)],
                 tensor, "ok")

\* a value of the rename_modes dictionary: an integer, or something else
Int_(n) == [isInt |-> TRUE, int |-> n]

NotInt == [isInt |-> FALSE, int |-> 0]

\* the first loop of rename_modes: the error of the first offending value
RECURSIVE rename_validate(_, _)
rename_validate(new_names, order) ==
    IF new_names = <<>> THEN "ok"
    ELSE LET mode == Head(new_names).mode
         IN IF ~mode.isInt THEN "TypeError"
            ELSE IF mode.int > order THEN "ValueError"
            ELSE IF mode.int < 0 THEN "ValueError"
            ELSE rename_validate(Tail(new_names), order)

\* the second loop of rename_modes: self._mode_names[mode] = name, in order
RECURSIVE rename_assign(_, _)
rename_assign(names, new_names) ==
    IF new_names = <<>> THEN [names |-> names, status |-> "ok"]
    ELSE LET mode == Head(new_names).mode.int
         IN IF mode >= Len(names) THEN [names |-> names, status |-> "IndexError"]
            ELSE rename_assign([names EXCEPT ![mode + 1] = Str(Head(new_names).name)],
                               Tail(new_names))

\* Tensor.rename_modes; new_names is the dictionary's items, in its order
Tensor_rename_modes(h, self, new_names) ==
    LET valid == rename_validate(new_names, Tensor_order(h, self))
        w == rename_assign(Tensor_mode_names(h, self), new_names)
    IN IF valid # "ok" THEN Result(h, 0, valid)
       ELSE Result([h EXCEPT !.lists[h.tensors[self]._mode_names] = w.names], 0, w.status)

\* tensor.data[idx] = value, by the caller: Tensor.data hands out the array itself
Tensor_data_setitem(h, self, idx, value) ==
    Result([h EXCEPT !.ndarrays[h.tensors[self]._data].at[idx] = value], 0, "ok")

\* what a caller observes of a Tensor
View(h, self) ==
    [data |-> Tensor_data(h, self),
     mode_names |-> Tensor_mode_names(h, self),
     orig_shape |-> h.tensors[self]._orig_shape]

(***************************************************************************)
(* super_diag_tensor, and the loop of TensorCPD.reconstruct and            *)
(* TensorTKD.reconstruct.                                                  *)
(***************************************************************************)
\* super_diag_tensor(order, values) for the 1-D array at address `values`
super_diag_tensor_offdiag_filled(h, order, values) ==
    LET v == h.ndarrays[values]
        rank == Prod(v.shape)
        shape == [k \in 1..order |-> rank]
        core == [shape |-> shape, at |-> [i \in Idx(shape) |-> v.at[<<i[1]>>]]]
        a == NewArray(h, core)
    IN Tensor_init(a.h, a.addr)

super_diag_tensor(h, order, values) ==
    LET v == h.ndarrays[values]
        rank == Prod(v.shape)
        shape == [k \in 1..order |-> rank]
        core == [shape |-> shape,
                 at |-> [i \in Idx(shape) |->
                           IF \A k \in 1..order : i[k] = i[1] THEN v.at[<<i[1]>>] ELSE 0]]
        a == NewArray(h, core)
    IN Tensor_init(a.h, a.addr)

\* `for mode, fmat in enumerate(self.fmat):
\*      tensor.mode_n_product(fmat, mode=mode, inplace=True)`, from `mode` on
RECURSIVE mode_n_products(_, _, _, _)
mode_n_products(h, tensor, fmat, mode) ==
    IF mode >= Len(fmat) THEN Result(h, tensor, "ok")
    ELSE LET r == Tensor_mode_n_product(h, tensor, h.ndarrays[fmat[mode + 1]], mode, TRUE)
         IN IF r.status # "ok" THEN r
            ELSE mode_n_products(r.h, tensor, fmat, mode + 1)

(***************************************************************************)
(* class TensorCPD                                                         *)
(***************************************************************************)
\* TensorCPD.__init__(fmat, core_values): a list of arrays and a 1-D array
TensorCPD_init(h, fmat, core_values) ==
    LET l == NewArrList(h, h.arrlists[fmat])
        a == NewArray(l.h, h.ndarrays[core_values])
        self == [kind |-> "TensorCPD", _fmat |-> l.addr, _core_values |-> a.addr,
                 full_shape |-> <<>>]
    IN Result([a.h EXCEPT !.containers = Append(@, self)], Len(h.containers) + 1, "ok")

TensorCPD_fmat(h, self) == h.arrlists[h.containers[self]._fmat]

TensorCPD_order(h, self) == Len(TensorCPD_fmat(h, self))

TensorCPD_rank(h, self) == <<h.ndarrays[TensorCPD_fmat(h, self)[1]].shape[2]>>

TensorCPD_core(h, self) ==
    super_diag_tensor(h, TensorCPD_order(h, self), h.containers[self]._core_values)

TensorCPD_reconstruct(h, self) ==
    LET core == TensorCPD_core(h, self)
    IN mode_n_products(core.h, core.ret, TensorCPD_fmat(h, self), 0)

(***************************************************************************)
(* class TensorTKD                                                         *)
(***************************************************************************)
\* TensorTKD.__init__(fmat, core_values): a list of arrays and an N-D array
TensorTKD_init(h, fmat, core_values) ==
    LET l == NewArrList(h, h.arrlists[fmat])
        a == NewArray(l.h, h.ndarrays[core_values])
        self == [kind |-> "TensorTKD", _fmat |-> l.addr, _core_values |-> a.addr,
                 full_shape |-> <<>>]
    IN Result([a.h EXCEPT !.containers = Append(@, self)], Len(h.containers) + 1, "ok")

TensorTKD_fmat(h, self) == h.arrlists[h.containers[self]._fmat]

TensorTKD_order(h, self) == Len(TensorTKD_fmat(h, self))

TensorTKD_rank(h, self) ==
    [k \in 1..TensorTKD_order(h, self) |-> h.ndarrays[TensorTKD_fmat(h, self)[k]].shape[2]]

TensorTKD_core(h, self) == Tensor_init(h, h.containers[self]._core_values)

\* the loop, and then the result stored back as the core
TensorTKD_reconstruct_keeping_result(h, self) ==
    LET core == TensorTKD_core(h, self)
        r == mode_n_products(core.h, core.ret, TensorTKD_fmat(h, self), 0)
    IN IF r.status # "ok" THEN r
       ELSE Result([r.h EXCEPT !.containers[self]._core_values = r.h.tensors[r.ret]._data],
                   r.ret, "ok")

TensorTKD_reconstruct(h, self) ==
    LET core == TensorTKD_core(h, self)
    IN mode_n_products(core.h, core.ret, TensorTKD_fmat(h, self), 0)

(***************************************************************************)
(* class TensorTT                                                          *)
(***************************************************************************)
\* TensorTT.__init__(core_values, full_shape): a list of 3-D arrays and a tuple
TensorTT_init(h, core_values, full_shape) ==
    LET l == NewArrList(h, h.arrlists[core_values])
        self == [kind |-> "TensorTT", _fmat |-> 0, _core_values |-> l.addr,
                 full_shape |-> full_shape]
    IN Result([l.h EXCEPT !.containers = Append(@, self)], Len(h.containers) + 1, "ok")

TensorTT_core_values(h, self) == h.arrlists[h.containers[self]._core_values]

\* TensorTT.core(i)
TensorTT_core(h, self, i) == Tensor_init(h, TensorTT_core_values(h, self)[i + 1])

\* TensorTT.cores, from core i on: ret is the list of the new Tensors
RECURSIVE TensorTT_cores_from(_, _, _)
TensorTT_cores_from(h, self, i) ==
    IF i >= Len(TensorTT_core_values(h, self)) THEN Result(h, <<>>, "ok")
    ELSE LET c == TensorTT_core(h, self, i)
             rest == TensorTT_cores_from(c.h, self, i + 1)
         IN Result(rest.h, <<c.ret>> \o rest.ret, "ok")

TensorTT_cores(h, self) == TensorTT_cores_from(h, self, 0)

TensorTT_order(h, self) == Len(TensorTT_core_values(h, self))

TensorTT_rank(h, self) ==
    [k \in 1..(TensorTT_order(h, self) - 1) |->
       Last(h.ndarrays[TensorTT_core_values(h, self)[k]].shape)]

\* np.reshape(a, shape, order='C')
reshapeC(a, shape) ==
    [shape |-> shape,
     at |-> [i \in Idx(shape) |->
               a.at[Reverse(UnlinF(Reverse(a.shape), LinC(shape, i)))]]]

\* one turn of the loop of TensorTT.reconstruct, for the i-th of cores[1:]
TT_step_ok(data, core, rank, full_shape, i) ==
    /\ Prod(core.shape) = rank[i + 1] * rank[i + 2] * full_shape[i + 2]
    /\ Prod(data.shape) % rank[i + 1] = 0

TT_step_row_major(data, core, rank, full_shape, i) ==
    LET shape_2d == <<rank[i + 1], rank[i + 2] * full_shape[i + 2]>>
        core_flat == reshapeC(core, shape_2d)
        data_2d == reshapeC(data, <<Prod(data.shape) \div rank[i + 1], rank[i + 1]>>)
    IN dot(data_2d, core_flat)

TT_step(data, core, rank, full_shape, i) ==
    LET shape_2d == <<rank[i + 1], rank[i + 2] * full_shape[i + 2]>>
        core_flat == reshapeF(core, shape_2d)
        data_2d == reshapeF(data, <<Prod(data.shape) \div rank[i + 1], rank[i + 1]>>)
    IN dot(data_2d, core_flat)

\* the loop over enumerate(self.cores[1:]), from its i-th turn on; `cores` is
\* the list self.cores[1:]; the result is the array `data`, or "ValueError"
RECURSIVE TT_loop(_, _, _, _, _, _)
TT_loop(h, data, cores, rank, full_shape, i) ==
    IF i >= Len(cores) THEN [data |-> data, status |-> "ok"]
    ELSE IF ~TT_step_ok(data, Tensor_data(h, cores[i + 1]), rank, full_shape, i)
    THEN [data |-> data, status |-> "ValueError"]
    ELSE TT_loop(h, TT_step(data, Tensor_data(h, cores[i + 1]), rank, full_shape, i),
                 cores, rank, full_shape, i + 1)

TensorTT_reconstruct(h, self) ==
    LET rank == TensorTT_rank(h, self) \o <<1>>
        full_shape == h.containers[self].full_shape
        first == TensorTT_cores(h, self)
        rest == TensorTT_cores(first.h, self)
        loop == TT_loop(rest.h, Tensor_data(first.h, first.ret[1]), Tail(rest.ret),
                        rank, full_shape, 0)
    IN IF loop.status # "ok" \/ Prod(loop.data.shape) # Prod(full_shape)
       THEN Result(h, 0, "ValueError")
       ELSE LET a == NewArray(rest.h, reshapeF(loop.data, full_shape))
            IN Tensor_init(a.h, a.addr)

(***************************************************************************)
(* residual_tensor                                                         *)
(***************************************************************************)
\* an argument of residual_tensor: the class of the object and its position
Obj(kind, ref) == [kind |-> kind, ref |-> ref]

\* tensor_B.reconstruct for a container of any of the three classes
reconstruct(h, self) ==
    CASE h.containers[self].kind = "TensorCPD" -> TensorCPD_reconstruct(h, self)
      [] h.containers[self].kind = "TensorTKD" -> TensorTKD_reconstruct(h, self)
      [] OTHER -> TensorTT_reconstruct(h, self)

\* Tensor(tensor_A.data - data): the difference is a new array
residual_of(h, tensor_A, data) ==
    IF Tensor_shape(h, tensor_A) # data.shape THEN Result(h, 0, "ValueError")
    ELSE LET a == NewArray(h, subtract(Tensor_data(h, tensor_A), data))
         IN Tensor_init(a.h, a.addr)

residual_tensor_swapped(h, tensor_A, tensor_B) ==
    IF tensor_B.kind \in {"TensorCPD", "TensorTKD", "TensorTT"}
    THEN LET r == reconstruct(h, tensor_B.ref)
         IN IF r.status # "ok" THEN Result(h, 0, r.status)
            ELSE LET a == NewArray(r.h, subtract(Tensor_data(r.h, r.ret),
                                                 Tensor_data(r.h, tensor_A)))
                 IN Tensor_init(a.h, a.addr)
    ELSE IF tensor_B.kind = "Tensor"
    THEN residual_of(h, tensor_A, Tensor_data(h, tensor_B.ref))
    ELSE Result(h, 0, "TypeError")

residual_tensor(h, tensor_A, tensor_B) ==
    IF tensor_B.kind \in {"TensorCPD", "TensorTKD", "TensorTT"}
    THEN LET r == reconstruct(h, tensor_B.ref)
         IN IF r.status # "ok" THEN Result(h, 0, r.status)
            ELSE residual_of(r.h, tensor_A, Tensor_data(r.h, r.ret))
    ELSE IF tensor_B.kind = "Tensor"
    THEN residual_of(h, tensor_A, Tensor_data(h, tensor_B.ref))
    ELSE Result(h, 0, "TypeError")

\* array[idx] = value, by the caller, on an array of its own
ndarray_setitem(h, array, idx, value) ==
    Result([h EXCEPT !.ndarrays[array].at[idx] = value], 0, "ok")

\* what a caller observes of a container: fmat, core or cores, rank
ContainerView(h, self) ==
    LET c == h.containers[self]
    IN IF c.kind = "TensorTT"
       THEN [fmat |-> <<>>,
             core |-> [k \in 1..TensorTT_order(h, self) |->
                         h.ndarrays[TensorTT_core_values(h, self)[k]]],
             rank |-> TensorTT_rank(h, self)]
       ELSE [fmat |-> [k \in 1..Len(h.arrlists[c._fmat]) |->
                         h.ndarrays[h.arrlists[c._fmat][k]]],
             core |-> <<h.ndarrays[c._core_values]>>,
             rank |-> IF c.kind = "TensorCPD" THEN TensorCPD_rank(h, self)
                      ELSE TensorTKD_rank(h, self)]

(***************************************************************************)
(* The calls of a behaviour.  `calls` keeps the last two calls, each with  *)
(* the heap it started from; `origin` names, for every Tensor, the Tensor  *)
(* it was copied from (0: constructed from an array).                      *)
(***************************************************************************)
NoMatrix == [shape |-> <<>>, at |-> <<>>]

Call(op, self, mode, inplace, matrix, new_names, r) ==
    [op |-> op, self |-> self, mode |-> mode, inplace |-> inplace, matrix |-> matrix,
     new_names |-> new_names, ret |-> r.ret, status |-> r.status, pre |-> H,
     clean |-> r.status = "ok" /\ (calls = <<>> \/ Last(calls).clean)]

Record(c) ==
    /\ owned' = owned
    /\ calls' = (IF calls = <<>> THEN <<c>> ELSE <<Last(calls), c>>)
    /\ steps' = steps + 1

Born(r, self) ==
    origin' = (IF Len(r.h.tensors) > Len(tensors) THEN Append(origin, self) ELSE origin)

\* the matrices a mode-n product is called with
Matrices ==
    {[shape |-> <<3, 2>>, at |-> [i \in Idx(<<3, 2>>) |-> i[1] + i[2]]],
     [shape |-> <<2, 3>>, at |-> [i \in Idx(<<2, 3>>) |-> IF i[2] = 2 THEN 2 ELSE i[1]]]}

\* the dictionaries rename_modes is called with: one entry naming a mode
NewNames(order) == {<<[name |-> "a", mode |-> Int_(m)]>> : m \in 0..(order - 1)}

\* dictionaries of one or two entries whose values are any integer from -1 to
\* order + 1, or no integer
ModeValues(order) == {Int_(m) : m \in (-1)..(order + 1)} \cup {NotInt}

AnyNewNames(order) ==
    {<<[name |-> "a", mode |-> m]>> : m \in ModeValues(order)}
    \cup {<<[name |-> "a", mode |-> m], [name |-> "b", mode |-> n]>> :
            m \in ModeValues(order), n \in ModeValues(order)}

Init ==
    /\ \E shape \in InitShapes :
         LET a == NewArray(EmptyHeap, Arange(shape))
             t == Tensor_init(a.h, a.addr)
         IN /\ ndarrays = t.h.ndarrays
            /\ lists = t.h.lists
            /\ arrlists = t.h.arrlists
            /\ tensors = t.h.tensors
            /\ containers = t.h.containers
    /\ owned = {1}
    /\ origin = <<0>>
    /\ calls = <<>>
    /\ steps = 0

Copy(self) ==
    /\ steps < MaxSteps
    /\ LET r == Tensor_copy(H, self)
       IN /\ Install(r.h)
          /\ Born(r, self)
          /\ Record(Call("copy", self, 0, FALSE, NoMatrix, <<>>, r))

Unfold(self, mode, inplace) ==
    /\ steps < MaxSteps
    /\ LET r == Tensor_unfold(H, self, mode, inplace)
       IN /\ Install(r.h)
          /\ Born(r, self)
          /\ Record(Call("unfold", self, mode, inplace, NoMatrix, <<>>, r))

Fold(self, inplace) ==
    /\ steps < MaxSteps
    /\ LET r == Tensor_fold(H, self, inplace)
       IN /\ Install(r.h)
          /\ Born(r, self)
          /\ Record(Call("fold", self, 0, inplace, NoMatrix, <<>>, r))

ModeNProduct(self, matrix, mode, inplace) ==
    /\ steps < MaxSteps
    /\ LET r == Tensor_mode_n_product(H, self, matrix, mode, inplace)
       IN /\ Install(r.h)
          /\ Born(r, self)
          /\ Record(Call("mode_n_product", self, mode, inplace, matrix, <<>>, r))

RenameModes(self, new_names) ==
    /\ steps < MaxSteps
    /\ LET r == Tensor_rename_modes(H, self, new_names)
       IN /\ Install(r.h)
          /\ Born(r, self)
          /\ Record(Call("rename_modes", self, 0, TRUE, NoMatrix, new_names, r))

SetItem(self, idx, value) ==
    /\ steps < MaxSteps
    /\ LET r == Tensor_data_setitem(H, self, idx, value)
       IN /\ Install(r.h)
          /\ Born(r, self)
          /\ Record(Call("setitem", self, 0, TRUE, NoMatrix, <<>>, r))

Next ==
    \/ \E self \in 1..Len(tensors) : Copy(self)
    \/ \E self \in 1..Len(tensors), mode \in 0..2, inplace \in BOOLEAN :
         /\ mode < Tensor_order(H, self)
         /\ Unfold(self, mode, inplace)
    \/ \E self \in 1..Len(tensors), inplace \in BOOLEAN : Fold(self, inplace)
    \/ \E self \in 1..Len(tensors), matrix \in Matrices, mode \in 0..2,
          inplace \in BOOLEAN :
         /\ mode_n_product_ok(Tensor_data(H, self), matrix, mode)
         /\ ModeNProduct(self, matrix, mode, inplace)
    \/ \E self \in 1..Len(tensors) :
         \E new_names \in NewNames(Tensor_order(H, self)) : RenameModes(self, new_names)
    \/ \E self \in 1..Len(tensors) :
         SetItem(self, [k \in 1..Tensor_order(H, self) |-> 0], 0)

Spec == Init /\ [][Next]_vars

(***************************************************************************)
(* SpecFlag: the three operations that take the inplace flag.              *)
(***************************************************************************)
NextFlag ==
    \/ \E self \in 1..Len(tensors), mode \in 0..2, inplace \in BOOLEAN :
         /\ mode < Tensor_order(H, self)
         /\ Unfold(self, mode, inplace)
    \/ \E self \in 1..Len(tensors), inplace \in BOOLEAN : Fold(self, inplace)
    \/ \E self \in 1..Len(tensors), matrix \in Matrices, mode \in 0..2,
          inplace \in BOOLEAN :
         /\ mode_n_product_ok(Tensor_data(H, self), matrix, mode)
         /\ ModeNProduct(self, matrix, mode, inplace)

SpecFlag == Init /\ [][NextFlag]_vars

(***************************************************************************)
(* SpecRename: rename_modes with any dictionary, on a tensor as            *)
(* constructed or unfolded.                                                *)
(***************************************************************************)
NextRename ==
    \/ \E self \in 1..Len(tensors), mode \in 0..2 :
         /\ steps < MaxRenameSteps
         /\ mode < Tensor_order(H, self)
         /\ Unfold(self, mode, TRUE)
    \/ \E self \in 1..Len(tensors) :
         \E new_names \in AnyNewNames(Tensor_order(H, self)) :
           /\ steps < MaxRenameSteps
           /\ RenameModes(self, new_names)

SpecRename == Init /\ [][NextRename]_vars

(***************************************************************************)
(* SpecTD: a decomposition container built from the caller's arrays, next  *)
(* to two dense tensors of its full shape.  The caller then writes into    *)
(* one of its arrays, or evaluates reconstruct (again and again), or calls *)
(* residual_tensor.                                                        *)
(***************************************************************************)
\* an array of small integers, different for each seed and each k
Gen(shape, seed, k) ==
    [shape |-> shape,
     at |-> [i \in Idx(shape) |-> (((seed + 1) * LinC(shape, i) + k) % 5) - 1]]

\* the k-th rank of the r-th choice of ranks: all equal to r, or mixed
RankOf(r, k) == IF r <= MaxRank THEN r ELSE 1 + ((r + k) % MaxRank)

RECURSIVE NewArrays(_, _)
NewArrays(h, values) ==
    IF values = <<>> THEN [h |-> h, addrs |-> <<>>]
    ELSE LET a == NewArray(h, Head(values))
             rest == NewArrays(a.h, Tail(values))
         IN [h |-> rest.h, addrs |-> <<a.addr>> \o rest.addrs]

\* the arrays the caller makes for a container of `kind` with N modes:
\* factor matrices and core for CP and Tucker, the cores for TT
Factors(kind, N, r, seed, full_shape) ==
    CASE kind = "TensorCPD" ->
           [k \in 1..N |-> Gen(<<full_shape[k], r>>, seed, k + 1)]
      [] kind = "TensorTKD" ->
           [k \in 1..N |-> Gen(<<full_shape[k], RankOf(r, k)>>, seed, k + 1)]
      [] OTHER ->
           [k \in 1..N |->
              Gen(<<IF k = 1 THEN 1 ELSE RankOf(r, k - 1), full_shape[k],
                    IF k = N THEN 1 ELSE RankOf(r, k)>>, seed, k + 1)]

CoreValues(kind, N, r, seed) ==
    IF kind = "TensorCPD" THEN Gen(<<r>>, seed, N + 2)
    ELSE Gen([k \in 1..N |-> RankOf(r, k)], seed, N + 2)

\* the heap after the caller has made its arrays and constructed two Tensors
\* and the container
Constructed(kind, N, r, seed, full_shape) ==
    LET x == NewArrays(EmptyHeap, <<Gen(full_shape, seed, 0), Gen(full_shape, seed, 1)>>)
        t1 == Tensor_init(x.h, x.addrs[1])
        t2 == Tensor_init(t1.h, x.addrs[2])
        f == NewArrays(t2.h, Factors(kind, N, r, seed, full_shape))
        l == NewArrList(f.h, f.addrs)
        c == NewArray(l.h, CoreValues(kind, N, r, seed))
        td == CASE kind = "TensorCPD" -> TensorCPD_init(c.h, l.addr, c.addr)
                [] kind = "TensorTKD" -> TensorTKD_init(c.h, l.addr, c.addr)
                [] OTHER -> TensorTT_init(l.h, l.addr, full_shape)
    IN [h |-> td.h,
        owned |-> {x.addrs[1], x.addrs[2]} \cup {f.addrs[k] : k \in 1..N}
                  \cup (IF kind = "TensorTT" THEN {} ELSE {c.addr})]

InitTD ==
    /\ \E kind \in {"TensorCPD", "TensorTKD", "TensorTT"}, N \in 1..MaxOrder,
          r \in 1..(2 * MaxRank), seed \in 0..MaxSeed, pattern \in ShapePatterns :
         /\ kind = "TensorCPD" => r <= MaxRank
         /\ LET c == Constructed(kind, N, r, seed, SubSeq(pattern, 1, N))
            IN /\ ndarrays = c.h.ndarrays
               /\ lists = c.h.lists
               /\ arrlists = c.h.arrlists
               /\ tensors = c.h.tensors
               /\ containers = c.h.containers
               /\ owned = c.owned
    /\ origin = <<0, 0>>
    /\ calls = <<>>
    /\ steps = 0

RecordTD(op, self, tensor_B, r) ==
    /\ Install(r.h)
    /\ origin' = origin
    /\ Record(Call(op, self, 0, TRUE, NoMatrix, <<>>, r) @@ [tensor_B |-> tensor_B])

\* the caller adds one to the first element of an array it handed over
CallerWrite(array) ==
    /\ calls = <<>>
    /\ LET idx == [k \in 1..Len(ndarrays[array].shape) |-> 0]
           r == ndarray_setitem(H, array, idx, ndarrays[array].at[idx] + 1)
       IN RecordTD("write", array, Obj("ndarray", array), r)

Reconstruct(self) ==
    /\ steps < MaxSteps
    /\ IF calls = <<>> THEN TRUE ELSE Last(calls).op = "reconstruct"
    /\ RecordTD("reconstruct", self, Obj(containers[self].kind, self), reconstruct(H, self))

Residual(tensor_A, tensor_B) ==
    /\ calls = <<>>
    /\ RecordTD("residual", tensor_A, tensor_B, residual_tensor(H, tensor_A, tensor_B))

NextTD ==
    \/ \E array \in owned : CallerWrite(array)
    \/ \E self \in 1..Len(containers) : Reconstruct(self)
    \/ \E tensor_B \in {Obj("Tensor", 2), Obj(containers[1].kind, 1), Obj("ndarray", 1)} :
         Residual(1, tensor_B)

SpecTD == InitTD /\ [][NextTD]_vars

(***************************************************************************)
(* Claims about Tensor.                                                    *)
(***************************************************************************)
\* what the claims compare of a Tensor: its data (with its shape) and its mode names
Observed(h, self) ==
    [data |-> Tensor_data(h, self), mode_names |-> Tensor_mode_names(h, self)]

StructuralOps == {"unfold", "fold", "mode_n_product"}

IsMutation(c) ==
    \/ c.op \in {"rename_modes", "setitem"}
    \/ c.op \in StructuralOps /\ c.inplace

\* C1: a successful mutation of a Tensor C (rename_modes, an in-place unfold,
\* fold or mode_n_product, a write to an element of C.data) leaves the Tensor
\* that C was obtained from (by copy() or by an operation with inplace=False)
\* with the data, shape and mode names it had before the mutation.
C1_CopyIndependence ==
    calls # <<>> =>
      LET c == Last(calls)
      IN (IsMutation(c) /\ c.status = "ok" /\ origin[c.self] # 0) =>
           Observed(H, origin[c.self]) = Observed(c.pre, origin[c.self])

\* C2: after any sequence of successful calls, every Tensor has as many mode
\* names as its data has dimensions.
C2_ModeNameCount ==
    (calls = <<>> \/ Last(calls).clean) =>
      \A t \in 1..Len(tensors) : Len(Tensor_mode_names(H, t)) = Tensor_order(H, t)

\* the last two calls were T.unfold(m) and then T.fold(), both in place
UnfoldThenFold ==
    /\ Len(calls) = 2
    /\ calls[1].op = "unfold" /\ calls[1].inplace /\ calls[1].status = "ok"
    /\ calls[2].op = "fold" /\ calls[2].inplace /\ calls[2].status = "ok"
    /\ calls[2].self = calls[1].self

\* C3: T.unfold(m) followed by T.fold() leaves T with the data, the shape and
\* the list of mode names it had before the unfold.
C3_FoldInvertsUnfold ==
    UnfoldThenFold =>
      Observed(H, calls[1].self) = Observed(calls[1].pre, calls[1].self)

\* the array a structural call computes from the receiver's data
ExpectedData(c) ==
    LET before == Tensor_data(c.pre, c.self)
    IN CASE c.op = "unfold" -> unfold(before, c.mode)
         [] c.op = "mode_n_product" -> mode_n_product(before, c.matrix, c.mode)
         [] OTHER -> fold(before,
                          TupleIndex(c.pre.tensors[c.self]._orig_shape, before.shape[1]),
                          c.pre.tensors[c.self]._orig_shape)

\* C6: a successful unfold, fold or mode_n_product with inplace=True returns
\* the receiver itself, which then holds the result; with inplace=False it
\* returns an object that did not exist before and holds the result, and the
\* receiver keeps its data, shape, recorded original shape and mode names.
C6_InplaceFlag ==
    calls # <<>> =>
      LET c == Last(calls)
      IN (c.op \in StructuralOps /\ c.status = "ok") =>
           /\ Tensor_data(H, c.ret) = ExpectedData(c)
           /\ IF c.inplace
              THEN c.ret = c.self /\ Len(tensors) = Len(c.pre.tensors)
              ELSE /\ c.ret = Len(c.pre.tensors) + 1
                   /\ Len(tensors) = Len(c.pre.tensors) + 1
                   /\ View(H, c.self) = View(c.pre, c.self)

\* a fold with inplace=False has succeeded on a tensor unfolded in place
C6_Witness ==
    /\ Len(calls) = 2
    /\ calls[1].op = "unfold" /\ calls[1].inplace /\ calls[1].status = "ok"
    /\ calls[2].op = "fold" /\ ~calls[2].inplace /\ calls[2].status = "ok"
    /\ calls[2].self = calls[1].self
    /\ Tensor_order(H, calls[2].ret) = 3
    /\ Tensor_order(H, calls[2].self) = 2

\* C5: rename_modes on a tensor of order N fails with ValueError when a value
\* of the dictionary is negative or not below N, with TypeError when a value
\* is no integer, and otherwise succeeds and leaves each key as the name of
\* its mode.
C5_RenameValidation ==
    calls # <<>> =>
      LET c == Last(calls)
          N == Tensor_order(c.pre, c.self)
          entries == {c.new_names[k] : k \in 1..Len(c.new_names)}
          nonint == \E e \in entries : ~e.mode.isInt
          badint == \E e \in entries : e.mode.isInt /\ (e.mode.int < 0 \/ e.mode.int >= N)
      IN c.op = "rename_modes" =>
           /\ (badint /\ ~nonint) => c.status = "ValueError"
           /\ (nonint /\ ~badint) => c.status = "TypeError"
           /\ (nonint /\ badint) => c.status \in {"ValueError", "TypeError"}
           /\ (~nonint /\ ~badint) =>
                /\ c.status = "ok"
                /\ \A k \in 1..Len(c.new_names) :
                     (\A j \in (k + 1)..Len(c.new_names) :
                        c.new_names[j].mode # c.new_names[k].mode)
                     => Tensor_mode_names(H, c.self)[c.new_names[k].mode.int + 1]
                          = Str(c.new_names[k].name)

\* C11: a rename_modes call that raises an error, whatever the dictionary,
\* leaves the tensor's mode names exactly as they were before the call.
C11_RenameAllOrNothing ==
    calls # <<>> =>
      LET c == Last(calls)
      IN (c.op = "rename_modes" /\ c.status # "ok") =>
           Tensor_mode_names(H, c.self) = Tensor_mode_names(c.pre, c.self)

(***************************************************************************)
(* Claims about the decomposition containers and residual_tensor.          *)
(***************************************************************************)
\* C4: when the caller writes into an array it handed to a constructor, no
\* Tensor and no container shows a changed value (data, mode names; fmat,
\* core or cores, rank).
C4_Ownership ==
    calls # <<>> =>
      LET c == Last(calls)
      IN c.op = "write" =>
           /\ \A t \in 1..Len(tensors) : Observed(H, t) = Observed(c.pre, t)
           /\ \A td \in 1..Len(containers) : ContainerView(H, td) = ContainerView(c.pre, td)

\* the factor matrices, as arrays, of a CP or Tucker container
FmatArrays(h, self) ==
    [k \in 1..Len(h.arrlists[h.containers[self]._fmat]) |->
       h.ndarrays[h.arrlists[h.containers[self]._fmat][k]]]

\* the cores, as arrays, of a TT container
CoreArrays(h, self) ==
    [k \in 1..TensorTT_order(h, self) |-> h.ndarrays[TensorTT_core_values(h, self)[k]]]

\* F_k[i_k, r] * ... * F_N[i_N, r]
RECURSIVE FactorProduct(_, _, _, _)
FactorProduct(F, idx, r, k) ==
    IF k > Len(F) THEN 1 ELSE F[k].at[<<idx[k], r>>] * FactorProduct(F, idx, r, k + 1)

\* the sum over r of c[r] * F_1[i_1, r] * ... * F_N[i_N, r]
CPEntry(F, c, idx) ==
    SumTo(c.shape[1], [r \in 0..(c.shape[1] - 1) |-> c.at[<<r>>] * FactorProduct(F, idx, r, 1)])

\* the sum over a_k .. a_{N-1} of G_k[a, j_k, a_k] * ... * G_N[a_{N-1}, j_N, 0]
RECURSIVE TTChain(_, _, _, _)
TTChain(G, idx, k, a) ==
    IF k > Len(G) THEN 1
    ELSE SumTo(G[k].shape[3],
               [b \in 0..(G[k].shape[3] - 1) |->
                  G[k].at[<<a, idx[k], b>>] * TTChain(G, idx, k + 1, b)])

IsReconstructOf(c, kind) ==
    c.op = "reconstruct" /\ c.pre.containers[c.self].kind = kind

\* C7: residual_tensor(tensor_A, tensor_B) returns a new Tensor holding, element
\* for element, tensor_A.data - tensor_B.data for a Tensor and
\* tensor_A.data - tensor_B.reconstruct.data for a TensorCPD, TensorTKD or
\* TensorTT; for any other tensor_B it raises TypeError and returns nothing.
C7_Residual ==
    calls # <<>> =>
      LET c == Last(calls)
          A == Tensor_data(c.pre, c.self)
          rec == reconstruct(c.pre, c.tensor_B.ref)
          B == IF c.tensor_B.kind = "Tensor" THEN Tensor_data(c.pre, c.tensor_B.ref)
               ELSE Tensor_data(rec.h, rec.ret)
      IN c.op = "residual" =>
           IF c.tensor_B.kind \in {"Tensor", "TensorCPD", "TensorTKD", "TensorTT"}
           THEN /\ c.status = "ok"
                /\ c.ret > Len(c.pre.tensors)
                /\ Tensor_shape(H, c.ret) = A.shape
                /\ \A i \in Idx(A.shape) : Tensor_data(H, c.ret).at[i] = A.at[i] - B.at[i]
           ELSE c.status = "TypeError" /\ c.ret = 0 /\ H = c.pre

\* a residual against a container has been computed, and it is not zero
\* everywhere nor the negative of itself
C7_Witness ==
    /\ calls # <<>>
    /\ Last(calls).op = "residual"
    /\ Last(calls).tensor_B.kind \in {"TensorCPD", "TensorTKD", "TensorTT"}
    /\ Last(calls).status = "ok"
    /\ Tensor_order(H, Last(calls).ret) = 3
    /\ \E i \in Idx(Tensor_shape(H, Last(calls).ret)) : Tensor_data(H, Last(calls).ret).at[i] # 0

\* C8: reconstruct of a TensorCPD with factor matrices F_1..F_N of shapes
\* (I_k, R) and R core coefficients c is a Tensor of shape (I_1,...,I_N) whose
\* entry at (i_1,...,i_N) is the sum over r of c[r] * F_1[i_1,r] * ... * F_N[i_N,r].
C8_CPReconstruct ==
    calls # <<>> =>
      LET c == Last(calls)
          F == FmatArrays(c.pre, c.self)
          coeff == c.pre.ndarrays[c.pre.containers[c.self]._core_values]
          shape == [k \in 1..Len(F) |-> F[k].shape[1]]
      IN IsReconstructOf(c, "TensorCPD") =>
           /\ c.status = "ok"
           /\ Tensor_shape(H, c.ret) = shape
           /\ \A i \in Idx(shape) : Tensor_data(H, c.ret).at[i] = CPEntry(F, coeff, i)

\* a CP container of three modes and rank two has been reconstructed to a
\* tensor with an entry that is not zero
C8_Witness ==
    /\ calls # <<>>
    /\ IsReconstructOf(Last(calls), "TensorCPD")
    /\ Last(calls).status = "ok"
    /\ TensorCPD_order(H, Last(calls).self) = 3
    /\ TensorCPD_rank(H, Last(calls).self) = <<2>>
    /\ \E i \in Idx(Tensor_shape(H, Last(calls).ret)) : Tensor_data(H, Last(calls).ret).at[i] # 0

\* C9: for a TensorTT with cores G_1..G_N of shapes (r_{k-1}, n_k, r_k),
\* r_0 = r_N = 1, and full_shape (n_1,...,n_N), rank is (r_1,...,r_{N-1}) and
\* reconstruct is a Tensor of shape full_shape whose entry at (j_1,...,j_N) is
\* the sum over a_1..a_{N-1} of G_1[0,j_1,a_1] * ... * G_N[a_{N-1},j_N,0].
C9_TTReconstruct ==
    calls # <<>> =>
      LET c == Last(calls)
          G == CoreArrays(c.pre, c.self)
          full_shape == c.pre.containers[c.self].full_shape
      IN IsReconstructOf(c, "TensorTT") =>
           /\ TensorTT_rank(c.pre, c.self) = [k \in 1..(Len(G) - 1) |-> G[k + 1].shape[1]]
           /\ c.status = "ok"
           /\ Tensor_shape(H, c.ret) = full_shape
           /\ \A j \in Idx(full_shape) : Tensor_data(H, c.ret).at[j] = TTChain(G, j, 1, 0)

\* a train of three cores with a rank above one has been reconstructed to a
\* tensor with an entry that is not zero
C9_Witness ==
    /\ calls # <<>>
    /\ IsReconstructOf(Last(calls), "TensorTT")
    /\ Last(calls).status = "ok"
    /\ TensorTT_order(H, Last(calls).self) = 3
    /\ \E k \in 1..2 : TensorTT_rank(H, Last(calls).self)[k] > 1
    /\ \E i \in Idx(Tensor_shape(H, Last(calls).ret)) : Tensor_data(H, Last(calls).ret).at[i] # 0

\* the data of the Tensor (of the Tensors) that core (cores) evaluates to
CoreData(h, self) ==
    CASE h.containers[self].kind = "TensorCPD" ->
           LET t == TensorCPD_core(h, self) IN <<Tensor_data(t.h, t.ret)>>
      [] h.containers[self].kind = "TensorTKD" ->
           LET t == TensorTKD_core(h, self) IN <<Tensor_data(t.h, t.ret)>>
      [] OTHER ->
           LET t == TensorTT_cores(h, self)
           IN [k \in 1..Len(t.ret) |-> Tensor_data(t.h, t.ret[k])]

\* C10: evaluating reconstruct leaves the container's stored core values,
\* factor matrices and TT cores as they were, core (cores) evaluated afterwards
\* gives the data it gave before, the Tensors that existed keep their data, and
\* an evaluation that follows another returns a Tensor with the same data and
\* shape.
C10_ReconstructPure ==
    calls # <<>> =>
      LET c == Last(calls)
      IN (c.op = "reconstruct" /\ c.status = "ok") =>
           /\ ContainerView(H, c.self) = ContainerView(c.pre, c.self)
           /\ CoreData(H, c.self) = CoreData(c.pre, c.self)
           /\ \A t \in 1..Len(c.pre.tensors) : Observed(H, t) = Observed(c.pre, t)
           /\ (Len(calls) = 2 /\ calls[1].op = "reconstruct" /\ calls[1].status = "ok") =>
                Tensor_data(H, c.ret) = Tensor_data(H, calls[1].ret)

\* a Tucker container of three modes has been reconstructed twice in a row
C10_Witness ==
    /\ Len(calls) = 2
    /\ calls[1].op = "reconstruct" /\ calls[1].status = "ok"
    /\ IsReconstructOf(calls[2], "TensorTKD") /\ calls[2].status = "ok"
    /\ calls[2].ret # calls[1].ret
    /\ TensorTKD_order(H, calls[2].self) = 3

====
